---- MODULE Spec2Model ----
(***************************************************************************)
(* A model of hft-order-book-engine.  The per-symbol order book            *)
(* (src/order_book.py) is a record; OrderBook.add_order and what it calls  *)
(* are operators on it.  The two sides are the heap arrays that heapq      *)
(* keeps in self.buy_orders / self.sell_orders, entry by entry, so that    *)
(* the array order, the comparisons heapq makes and the exceptions those   *)
(* comparisons raise are the ones of the program.  Spec and SpecBurst      *)
(* apply requests to one book; SpecServer is the UDP server around the     *)
(* books (src/udp_server.py): listener, request queue, processing worker,  *)
(* registry of books by symbol, response queue and response worker.        *)
(* SpecPipeline runs the same three threads on a stream of datagrams,      *)
(* SpecLifecycle adds stop() and each thread leaving its loop, and         *)
(* SpecDashboard adds the HTTP request threads of src/web_dashboard.py,    *)
(* which call process_order and read the books while the processing        *)
(* worker runs, one statement group at a time.  SpecShutdown is the        *)
(* lifecycle with the worker's call taken in those steps, SpecDeep a book  *)
(* of many resting asks under cancels, and SpecTwin one request sequence   *)
(* applied to two books that differ only in the client ids.                *)
(***************************************************************************)
EXTENDS Integers, Sequences, FiniteSets, TLC

\* ------------------------------------------------------------------ bounds
\* Requests applied to the book in one behaviour of Spec.
MaxOrders == 3
\* SpecBurst: the first MaxAsks requests are resting asks; MaxBurstOrders
\* requests are applied in all.
MaxAsks == 4
MaxBurstOrders == 6

\* Limit prices, quantities (lots), wall-clock readings (Order.timestamp is
\* time.time() at construction: two orders may read the same value, and a
\* later request may carry an earlier reading) and client-chosen order ids.
Prices == 1..2
Qtys == 1..2
Times == 1..2
Ids == 1..2
Clients == {"c1"}
Sides == {"BUY", "SELL"}

\* The price of an order that carries none (Order.price defaults to None).
\* Every price an order does carry is a non-zero number.
NoPrice == 0

\* ------------------------------------------------------------- value types
\* class Order.  h is the identity of the Python object (requests are
\* numbered as they are applied); it takes no part in comparisons.
Order(h, order_id, client_id, side, order_type, quantity, price, timestamp) ==
    [h |-> h, order_id |-> order_id, client_id |-> client_id, side |-> side,
     order_type |-> order_type, quantity |-> quantity, price |-> price,
     timestamp |-> timestamp]

\* class Trade.  trade_id is a fresh uuid and timestamp a clock reading;
\* neither is read by the book, so a trade is its remaining four fields
\* (symbol is the book's).
Trade(buy_order_id, sell_order_id, quantity, price) ==
    [buy_order_id |-> buy_order_id, sell_order_id |-> sell_order_id,
     quantity |-> quantity, price |-> price]

\* The (price, timestamp, order) tuple pushed on a side.
Entry(key, ts, order) == [key |-> key, ts |-> ts, order |-> order]

\* Order.__eq__ generated by @dataclass: field by field, same class.
OrderEq(a, b) ==
    /\ a.order_id = b.order_id
    /\ a.client_id = b.client_id
    /\ a.side = b.side
    /\ a.order_type = b.order_type
    /\ a.quantity = b.quantity
    /\ a.price = b.price
    /\ a.timestamp = b.timestamp

\* x < y on two heap tuples raises TypeError when price and timestamp are
\* equal and the two Orders differ (Order defines no __lt__), and when the
\* prices differ and one of them is None (None < float is not defined).
TupleRaises(x, y) ==
    \/ /\ x.key = y.key
       /\ x.ts = y.ts
       /\ ~OrderEq(x.order, y.order)
    \/ /\ x.key # y.key
       /\ (x.key = NoPrice \/ y.key = NoPrice)

\* x < y on two heap tuples, when it does not raise.
TupleLT(x, y) ==
    IF x.key # y.key THEN x.key < y.key
    ELSE IF x.ts # y.ts THEN x.ts < y.ts
    ELSE FALSE

\* ------------------------------------------------------------------- heapq
\* Positions are 0-based as in the library; heap[p + 1] is arr[p].
Swap(heap, p, q) ==
    [heap EXCEPT ![p + 1] = heap[q + 1], ![q + 1] = heap[p + 1]]

\* _heapq siftdown: move arr[pos] towards startpos while it is smaller than
\* its parent.  A raising comparison leaves the array as it is at that point.
RECURSIVE siftdown(_, _, _)
siftdown(heap, startpos, pos) ==
    IF pos <= startpos THEN [heap |-> heap, exc |-> "none"]
    ELSE LET parentpos == (pos - 1) \div 2
             newitem == heap[pos + 1]
             parent == heap[parentpos + 1]
         IN IF TupleRaises(newitem, parent)
            THEN [heap |-> heap, exc |-> "TypeError"]
            ELSE IF ~TupleLT(newitem, parent)
            THEN [heap |-> heap, exc |-> "none"]
            ELSE siftdown(Swap(heap, pos, parentpos), startpos, parentpos)

\* The loop of _heapq siftup: bubble the smaller child up until a leaf.
RECURSIVE siftup_loop(_, _, _)
siftup_loop(heap, startpos, pos) ==
    LET endpos == Len(heap)
        limit == endpos \div 2
        childpos == 2 * pos + 1
    IN IF pos >= limit THEN siftdown(heap, startpos, pos)
       ELSE IF childpos + 1 < endpos
                /\ TupleRaises(heap[childpos + 1], heap[childpos + 2])
       THEN [heap |-> heap, exc |-> "TypeError"]
       ELSE LET smaller ==
                    IF childpos + 1 < endpos
                       /\ ~TupleLT(heap[childpos + 1], heap[childpos + 2])
                    THEN childpos + 1
                    ELSE childpos
            IN siftup_loop(Swap(heap, pos, smaller), startpos, smaller)

siftup(heap, pos) == siftup_loop(heap, pos, pos)

\* heapq.heappush(heap, item): append, then sift the new last item down.
heappush(heap, item) == siftdown(Append(heap, item), 0, Len(heap))

\* heapq.heappop(heap) on a non-empty heap: the last item replaces the root
\* and is sifted; the old root is gone from the list even when a comparison
\* raises.
heappop(heap) ==
    LET n == Len(heap)
        lastelt == heap[n]
        rest == SubSeq(heap, 1, n - 1)
    IN IF n = 1 THEN [heap |-> rest, exc |-> "none"]
       ELSE siftup([rest EXCEPT ![1] = lastelt], 0)

\* heapq.heapify(heap): siftup at n/2 - 1, ..., 0, stopping at a raise.
RECURSIVE heapify_from(_, _)
heapify_from(heap, i) ==
    IF i < 0 THEN [heap |-> heap, exc |-> "none"]
    ELSE LET r == siftup(heap, i)
         IN IF r.exc # "none" THEN r ELSE heapify_from(r.heap, i - 1)

heapify(heap) == heapify_from(heap, Len(heap) \div 2 - 1)

\* --------------------------------------------------------------- OrderBook
\* OrderBook.__init__.  orders_by_id maps an id to the Order object stored
\* under it; client_orders maps a client to the ids it has submitted.
EmptyBook ==
    [buy_orders |-> << >>, sell_orders |-> << >>,
     orders_by_id |-> << >>, client_orders |-> [c \in Clients |-> << >>],
     trades |-> << >>, total_volume |-> 0, total_trades |-> 0]

\* The outcome of a call: the book as the call leaves it, the list it
\* returns (empty when it raises) and the exception it raises, if any.
Outcome(book, trades, exc) == [book |-> book, trades |-> trades, exc |-> exc]

\* del d[k] on a dict held as a function.
DictDel(d, k) == [x \in (DOMAIN d) \ {k} |-> d[x]]

\* d[k] = v on a dict held as a function.
DictSet(d, k, v) == [x \in (DOMAIN d) \cup {k} |-> IF x = k THEN v ELSE d[x]]

\* The key under which an order is pushed on its side: -price on the buy
\* side ("Use negative price for max heap behavior"), price on the sell side.
HeapKey(order) == IF order.side = "BUY" THEN 0 - order.price ELSE order.price

\* The while-condition of the four matching loops, on the opposite side's
\* root: always true for a MARKET order; sell_orders[0][0] <= order.price for
\* a LIMIT BUY; -buy_orders[0][0] >= order.price for a LIMIT SELL.
Acceptable(order, best) ==
    IF order.order_type = "MARKET" THEN TRUE
    ELSE IF order.side = "BUY" THEN best.key <= order.price
    ELSE 0 - best.key >= order.price

\* The while-condition raises TypeError when it compares with None: a LIMIT
\* order without a price, or a root pushed with a None price.
AcceptableRaises(order, best) ==
    /\ order.order_type = "LIMIT"
    /\ (order.price = NoPrice \/ best.key = NoPrice)

\* The price written into the Trade: the root's key as stored, except in the
\* LIMIT SELL loop, which converts it back from negative.  The MARKET SELL
\* loop does not convert.
TradePrice(order, best) ==
    IF order.side = "SELL" /\ order.order_type = "LIMIT"
    THEN 0 - best.key
    ELSE best.key

\* The Trade of one match: the incoming order is the buyer when it is a BUY.
MatchTrade(order, best, quantity) ==
    IF order.side = "BUY"
    THEN Trade(order.order_id, best.order.order_id, quantity,
               TradePrice(order, best))
    ELSE Trade(best.order.order_id, order.order_id, quantity,
               TradePrice(order, best))

\* FullMatch with the comparison made strict: an exact fill takes the
\* "Partial match" branch.
FullMatch_strict(best, remaining_quantity) ==
    best.order.quantity < remaining_quantity

\* True when the resting root is matched in full ("Full match" branch).
FullMatch(best, remaining_quantity) == best.order.quantity <= remaining_quantity

\* The matching while-loop of _process_market_order / _process_limit_order.
\* opp is the opposite side's heap, idx is orders_by_id, trades the local
\* list.  Returns the loop's final locals and the exception that ended it.
RECURSIVE MatchLoop(_, _, _, _, _)
MatchLoop(order, opp, idx, remaining_quantity, trades) ==
    IF remaining_quantity > 0 /\ Len(opp) > 0
        /\ AcceptableRaises(order, opp[1])
    THEN [opp |-> opp, idx |-> idx, remaining |-> remaining_quantity,
          trades |-> trades, exc |-> "TypeError"]
    ELSE IF ~(remaining_quantity > 0 /\ Len(opp) > 0
                /\ Acceptable(order, opp[1]))
    THEN [opp |-> opp, idx |-> idx, remaining |-> remaining_quantity,
          trades |-> trades, exc |-> "none"]
    ELSE LET best == opp[1]
         IN IF FullMatch(best, remaining_quantity)
            THEN LET trade_quantity == best.order.quantity
                     popped == heappop(opp)
                 IN IF popped.exc # "none"
                    THEN [opp |-> popped.heap, idx |-> idx,
                          remaining |-> remaining_quantity,
                          trades |-> trades, exc |-> popped.exc]
                    ELSE IF best.order.order_id \notin DOMAIN idx
                    THEN [opp |-> popped.heap, idx |-> idx,
                          remaining |-> remaining_quantity,
                          trades |-> trades, exc |-> "KeyError"]
                    ELSE MatchLoop(order, popped.heap,
                                   DictDel(idx, best.order.order_id),
                                   remaining_quantity - trade_quantity,
                                   Append(trades,
                                          MatchTrade(order, best, trade_quantity)))
            ELSE MatchLoop(order,
                           [opp EXCEPT ![1].order.quantity =
                                           @ - remaining_quantity],
                           idx, 0,
                           Append(trades,
                                  MatchTrade(order, best, remaining_quantity)))

\* Sum of the quantities of a list of trades.
RECURSIVE SumQty(_)
SumQty(ts) == IF ts = << >> THEN 0 ELSE ts[1].quantity + SumQty(Tail(ts))

\* UpdateStatistics with the counters bumped once per request instead of once
\* per trade.
UpdateStatistics_once(book, trades) ==
    [book EXCEPT !.trades = @ \o trades,
                 !.total_volume = @ + (IF trades = << >> THEN 0
                                       ELSE trades[1].quantity),
                 !.total_trades = @ + (IF trades = << >> THEN 0 ELSE 1)]

\* "Update statistics": append the trades to the history and add them to
\* the two counters.
UpdateStatistics(book, trades) ==
    [book EXCEPT !.trades = @ \o trades,
                 !.total_volume = @ + SumQty(trades),
                 !.total_trades = @ + Len(trades)]

\* The book with the opposite side of `order` replaced by opp and its own
\* side by own.
WithSides(book, order, opp, own) ==
    IF order.side = "BUY"
    THEN [book EXCEPT !.sell_orders = opp, !.buy_orders = own]
    ELSE [book EXCEPT !.buy_orders = opp, !.sell_orders = own]

OppSide(book, order) ==
    IF order.side = "BUY" THEN book.sell_orders ELSE book.buy_orders

OwnSide(book, order) ==
    IF order.side = "BUY" THEN book.buy_orders ELSE book.sell_orders

\* OrderBook._process_limit_order: match, then push what remains on the
\* order's own side.  -order.price raises TypeError for a BUY without a
\* price, before anything is pushed.
_process_limit_order(book, order) ==
    LET m == MatchLoop(order, OppSide(book, order), book.orders_by_id,
                       order.quantity, << >>)
        b1 == [WithSides(book, order, m.opp, OwnSide(book, order))
                 EXCEPT !.orders_by_id = m.idx]
        rested == [order EXCEPT !.quantity = m.remaining]
        pushed == IF order.side = "BUY" /\ order.price = NoPrice
                  THEN [heap |-> OwnSide(book, order), exc |-> "TypeError"]
                  ELSE heappush(OwnSide(book, order),
                                Entry(HeapKey(order), order.timestamp, rested))
        b2 == IF m.remaining > 0
              THEN WithSides(b1, order, m.opp, pushed.heap)
              ELSE b1
    IN IF m.exc # "none" THEN Outcome(b1, << >>, m.exc)
       ELSE IF m.remaining > 0 /\ pushed.exc # "none"
       THEN Outcome(b2, << >>, pushed.exc)
       ELSE Outcome(UpdateStatistics(b2, m.trades), m.trades, "none")

\* _process_market_order with the residue rested as a LIMIT order's is.
_process_market_order_rests(book, order) == _process_limit_order(book, order)

\* OrderBook._process_market_order: match, never rest.
_process_market_order(book, order) ==
    LET m == MatchLoop(order, OppSide(book, order), book.orders_by_id,
                       order.quantity, << >>)
        b1 == [WithSides(book, order, m.opp, OwnSide(book, order))
                 EXCEPT !.orders_by_id = m.idx]
    IN IF m.exc # "none" THEN Outcome(b1, << >>, m.exc)
       ELSE Outcome(UpdateStatistics(b1, m.trades), m.trades, "none")

\* Position (1-based) of the first entry of a side whose order has this id,
\* 0 when there is none: the enumerate loop of _cancel_order.
FirstWithId(heap, order_id) ==
    IF \E i \in 1..Len(heap) : heap[i].order.order_id = order_id
    THEN CHOOSE i \in 1..Len(heap) :
            /\ heap[i].order.order_id = order_id
            /\ \A j \in 1..(i - 1) : heap[j].order.order_id # order_id
    ELSE 0

\* list.pop(i) for a 1-based position.
ListPop(heap, i) == SubSeq(heap, 1, i - 1) \o SubSeq(heap, i + 1, Len(heap))

\* OrderBook._cancel_order.  The side searched is the side of the Order the
\* index holds under the id.
_cancel_order(book, cancel_order) ==
    IF cancel_order.order_id \notin DOMAIN book.orders_by_id
    THEN Outcome(book, << >>, "none")
    ELSE LET order_to_cancel == book.orders_by_id[cancel_order.order_id]
             heap == OwnSide(book, order_to_cancel)
             i == FirstWithId(heap, cancel_order.order_id)
             h == IF i = 0 THEN [heap |-> heap, exc |-> "none"]
                  ELSE heapify(ListPop(heap, i))
             b1 == WithSides(book, order_to_cancel,
                             OppSide(book, order_to_cancel), h.heap)
         IN IF h.exc # "none" THEN Outcome(b1, << >>, h.exc)
            ELSE Outcome([b1 EXCEPT !.orders_by_id =
                                       DictDel(@, cancel_order.order_id)],
                         << >>, "none")

\* OrderBook.add_order.
add_order(book, order) ==
    IF order.order_type = "CANCEL" THEN _cancel_order(book, order)
    ELSE LET stored ==
                 [book EXCEPT
                    !.orders_by_id = DictSet(@, order.order_id, order),
                    !.client_orders[order.client_id] =
                        Append(@, order.order_id)]
         IN IF order.order_type = "MARKET"
            THEN _process_market_order(stored, order)
            ELSE _process_limit_order(stored, order)

\* OrderBook.get_best_bid: the root of the buy heap, None (<< >>) when empty.
get_best_bid(book) ==
    IF Len(book.buy_orders) = 0 THEN << >>
    ELSE << 0 - book.buy_orders[1].key, book.buy_orders[1].order.quantity >>

\* OrderBook.get_best_ask: the root of the sell heap, None (<< >>) when empty.
get_best_ask(book) ==
    IF Len(book.sell_orders) = 0 THEN << >>
    ELSE << book.sell_orders[1].key, book.sell_orders[1].order.quantity >>

\* The default of get_order_book_snapshot's depth parameter.
DefaultDepth == 10

\* heap[:depth] of a Python list.
ListPrefix(heap, depth) ==
    SubSeq(heap, 1, IF depth < Len(heap) THEN depth ELSE Len(heap))

\* OrderBook.get_order_book_snapshot(depth): one level per entry of the first
\* `depth` positions of each heap array, in array order (symbol and timestamp
\* are left out).
get_order_book_snapshot(book, depth) ==
    LET buys == ListPrefix(book.buy_orders, depth)
        sells == ListPrefix(book.sell_orders, depth)
    IN [buy_levels |->
            [i \in 1..Len(buys) |->
                [price |-> 0 - buys[i].key,
                 quantity |-> buys[i].order.quantity,
                 order_id |-> buys[i].order.order_id]],
        sell_levels |->
            [i \in 1..Len(sells) |->
                [price |-> sells[i].key,
                 quantity |-> sells[i].order.quantity,
                 order_id |-> sells[i].order.order_id]],
        best_bid |-> get_best_bid(book),
        best_ask |-> get_best_ask(book),
        total_volume |-> book.total_volume,
        total_trades |-> book.total_trades]

\* ---------------------------------------------------------- OrderProcessor
\* Symbols that requests name.
Symbols == {"A", "B"}

\* OrderProcessor.__init__: no book yet, nothing processed.
NewProcessor == [order_books |-> << >>, total_orders_processed |-> 0]

\* get_or_create_order_book without the test: a new OrderBook every time.
get_or_create_order_book_always_new(order_books, symbol) ==
    DictSet(order_books, symbol, EmptyBook)

\* OrderProcessor.get_or_create_order_book: the registry with a new OrderBook
\* stored under a symbol seen for the first time.
get_or_create_order_book(order_books, symbol) ==
    IF symbol \in DOMAIN order_books THEN order_books
    ELSE DictSet(order_books, symbol, EmptyBook)

\* What process_order stores and returns once add_order has produced the
\* outcome r on the registry `books`.  The text of an exception is given by
\* the name of its class.
ProcessResult(processor, symbol, books, r) ==
    LET stored == DictSet(books, symbol, r.book)
    IN IF r.exc # "none"
       THEN [processor |-> [processor EXCEPT !.order_books = stored],
             success |-> FALSE, message |-> "Error: " \o r.exc,
             trades |-> << >>]
       ELSE [processor |->
                 [order_books |-> stored,
                  total_orders_processed |->
                      processor.total_orders_processed + 1],
             success |-> TRUE,
             message |-> IF r.trades # << >>
                         THEN "Order executed with "
                                  \o ToString(Len(r.trades)) \o " trades"
                         ELSE "Order accepted",
             trades |-> r.trades]

\* process_order with one book for every symbol: the order is applied to
\* the book of "A" whatever symbol it names.
process_order_one_book(processor, symbol, order) ==
    CHOOSE result \in
        { ProcessResult(processor, "A", books, r) :
            books \in {get_or_create_order_book(processor.order_books, "A")},
            r \in {add_order(get_or_create_order_book(processor.order_books,
                                                      "A")["A"],
                             order)} } : TRUE

\* OrderProcessor.process_order on an order that names `symbol`
\* (Order.symbol is carried beside the Order record: a book only ever holds
\* orders of its own symbol).  Returns the processor as the call leaves it
\* and the (success, message, trades) it returns.  The comprehension over
\* singleton sets binds the registry and the outcome of add_order as values,
\* so that each is computed once per call.
process_order(processor, symbol, order) ==
    CHOOSE result \in
        { ProcessResult(processor, symbol, books, r) :
            books \in {get_or_create_order_book(processor.order_books, symbol)},
            r \in {add_order(get_or_create_order_book(processor.order_books,
                                                      symbol)[symbol],
                             order)} } : TRUE

\* ---------------------------------------------------------- UDPOrderServer
\* The order_id of a request that carries none.
NoId == 0

\* The uuid Order.__post_init__ gives the Order built from datagram h.
Uuid(h) == 0 - h

\* str.upper() on the strings requests carry.
Upper(str) ==
    CASE str = "buy" -> "BUY"
      [] str = "sell" -> "SELL"
      [] str = "limit" -> "LIMIT"
      [] str = "market" -> "MARKET"
      [] str = "cancel" -> "CANCEL"
      [] str = "hold" -> "HOLD"
      [] OTHER -> str

\* The five fields _parse_order requires.
required_fields == {"client_id", "symbol", "side", "order_type", "quantity"}

\* _parse_order without the check of the two enums.
_parse_order_any_enum(order_data, h, now) ==
    IF required_fields \ DOMAIN order_data # {}
    THEN [exc |-> "ValueError", message |-> "Missing required field"]
    ELSE [exc |-> "none",
          symbol |-> order_data.symbol,
          order |->
            Order(h,
                  IF "order_id" \in DOMAIN order_data
                        /\ order_data.order_id # NoId
                  THEN order_data.order_id ELSE Uuid(h),
                  order_data.client_id,
                  Upper(order_data.side),
                  Upper(order_data.order_type),
                  order_data.quantity,
                  IF "price" \in DOMAIN order_data THEN order_data.price
                  ELSE NoPrice,
                  now)]

\* UDPOrderServer._parse_order on a decoded JSON object (a function from
\* the keys present to their values), for datagram h at clock reading now.
\* A price that is absent, null or 0 is falsy and becomes None.  Returns the
\* Order with its symbol, or the ValueError raised.
_parse_order(order_data, h, now) ==
    IF required_fields \ DOMAIN order_data # {}
    THEN [exc |-> "ValueError", message |-> "Missing required field"]
    ELSE IF Upper(order_data.side) \notin {"BUY", "SELL"}
            \/ Upper(order_data.order_type) \notin {"MARKET", "LIMIT", "CANCEL"}
    THEN [exc |-> "ValueError", message |-> "Invalid enum value"]
    ELSE [exc |-> "none",
          symbol |-> order_data.symbol,
          order |->
            Order(h,
                  IF "order_id" \in DOMAIN order_data
                        /\ order_data.order_id # NoId
                  THEN order_data.order_id ELSE Uuid(h),
                  order_data.client_id,
                  Upper(order_data.side),
                  Upper(order_data.order_type),
                  order_data.quantity,
                  IF "price" \in DOMAIN order_data THEN order_data.price
                  ELSE NoPrice,
                  now)]

\* The maxsize of order_queue and of response_queue: Queue() is built with
\* none, and a maxsize of 0 means the queue has no bound.
QueueMaxsize == 0

\* Queue.full(): put blocks while it holds.
Full(queue) == QueueMaxsize > 0 /\ Len(queue) >= QueueMaxsize

\* The response _processing_worker builds (trade_id and the timestamps are
\* left out).
AckResponse(order, result) ==
    [order_id |-> order.order_id, success |-> result.success,
     message |-> result.message,
     trades |-> [i \in 1..Len(result.trades) |->
                    [quantity |-> result.trades[i].quantity,
                     price |-> result.trades[i].price]]]

\* The response _send_error_response builds (timestamp left out).
ErrorResponse(error_message) ==
    [success |-> FALSE, message |-> error_message]

\* Executions whose acknowledgement still fits one UDP datagram.  (With the
\* field widths of the real response the largest acknowledgement the socket
\* accepts lists 554 executions; the limit is scaled to the orders of the
\* specifications below.)
MaxAckTrades == 1

TooLong(response) ==
    /\ "trades" \in DOMAIN response
    /\ Len(response.trades) > MaxAckTrades

\* socket.sendto(json.dumps(response), client_address) as the two senders
\* call it, inside a try whose except logs the error and goes on: the record
\* of the call, with the OSError (message too long) it raised.
sendto(response, client_address) ==
    [response |-> response, client_address |-> client_address,
     exc |-> IF TooLong(response) THEN "OSError" ELSE "none"]

\* ------------------------------------------------------------ state machine
\* book is the OrderBook; log records, for every request applied so far, the
\* Order passed to add_order, the ids resting on the book when it was called,
\* the exception the call raised ("none" when it returned) and the list it
\* returned.
VARIABLES book, log

\* The server around the books.  processor is the OrderProcessor (registry of
\* books by symbol and its counter); order_queue and response_queue are the
\* two Queues; recv_log lists the datagrams the socket has delivered to the
\* listener and sent the calls of socket.sendto, each in order.
VARIABLES processor, order_queue, response_queue, recv_log, sent

server_vars == << processor, order_queue, response_queue, recv_log, sent >>

\* The threads.  running is UDPOrderServer.running; alive is the set of the
\* server's threads that have not left their loop; inflight gives, for each
\* thread that calls process_order, how far it is into the call and its local
\* variables; posted lists the bodies of the POST /api/orders requests taken
\* so far and observed what get_order_book_snapshots last returned to the
\* dashboard's reader (by symbol; nothing before the first read).
VARIABLES running, alive, inflight, posted, observed

thread_vars == << running, alive, inflight, posted, observed >>

\* A second run of the requests applied to book, in which the client_id of
\* each request may be another: the book of that run, and what its last
\* add_order raised and returned.
VARIABLES twin

vars == << book, log, processor, order_queue, response_queue, recv_log, sent,
           running, alive, inflight, posted, observed, twin >>

\* The threads start() leaves running: its caller in _network_loop, and the
\* two workers.
ServerThreads == {"network", "processing", "response"}

\* The threads that call process_order: the processing worker and the thread
\* serving the dashboard's POST /api/orders.
Submitters == {"processing", "http"}

\* A submitter outside process_order.
Idle == [stage |-> "idle"]

\* The clients of the second run, and its book as OrderBook.__init__ leaves
\* it (client_orders is a defaultdict: every client has the empty list).
TwinClients == {"c1", "c2"}

TwinEmptyBook ==
    [EmptyBook EXCEPT !.client_orders = [c \in TwinClients |-> << >>]]

\* The entries resting on either side.
Resting(b) ==
    { b.buy_orders[i] : i \in 1..Len(b.buy_orders) }
        \cup { b.sell_orders[i] : i \in 1..Len(b.sell_orders) }

\* The order ids resting on either side.
RestingIds(b) == { e.order.order_id : e \in Resting(b) }

Init ==
    /\ book = EmptyBook
    /\ log = << >>
    /\ processor = NewProcessor
    /\ order_queue = << >>
    /\ response_queue = << >>
    /\ recv_log = << >>
    /\ sent = << >>
    /\ running = TRUE
    /\ alive = ServerThreads
    /\ inflight = [t \in Submitters |-> Idle]
    /\ posted = << >>
    /\ observed = << >>
    /\ twin = [book |-> TwinEmptyBook, exc |-> "none", trades |-> << >>]

\* One call add_order(order) and its record in the log.
Apply(order) ==
    LET r == add_order(book, order)
    IN /\ book' = r.book
       /\ log' = Append(log, [order |-> order, resting |-> RestingIds(book),
                              exc |-> r.exc, trades |-> r.trades])
       /\ UNCHANGED server_vars
       /\ UNCHANGED thread_vars
       /\ UNCHANGED twin

\* The Order objects a caller can pass as request number h.
LimitOrders(h) ==
    { Order(h, id, c, s, "LIMIT", q, p, t) :
        id \in Ids, c \in Clients, s \in Sides, q \in Qtys, p \in Prices,
        t \in Times }

\* A MARKET order carries no price; its timestamp is never read.
MarketOrders(h) ==
    { Order(h, id, c, s, "MARKET", q, NoPrice, 1) :
        id \in Ids, c \in Clients, s \in Sides, q \in Qtys }

\* A CANCEL as the client builds it: side BUY, quantity 0, no price.
CancelOrders(h) ==
    { Order(h, id, c, "BUY", "CANCEL", 0, NoPrice, 1) :
        id \in Ids, c \in Clients }

SubmitLimit ==
    /\ Len(log) < MaxOrders
    /\ \E o \in LimitOrders(Len(log) + 1) : Apply(o)

SubmitMarket ==
    /\ Len(log) < MaxOrders
    /\ \E o \in MarketOrders(Len(log) + 1) : Apply(o)

SubmitCancel ==
    /\ Len(log) < MaxOrders
    /\ \E o \in CancelOrders(Len(log) + 1) : Apply(o)

Next == SubmitLimit \/ SubmitMarket \/ SubmitCancel

Spec == Init /\ [][Next]_vars

\* A burst on a coarse clock.  Clients leave order_id to the server
\* (Order.__post_init__ assigns a fresh uuid: request h gets id h).  First
\* MaxAsks LIMIT SELL orders arrive and rest, then buyers and cancels.  The
\* requests are a subset of those add_order accepts, chosen so that books of
\* four resting orders are reached.
BurstAsk ==
    /\ Len(log) < MaxAsks
    /\ \E c \in Clients, q \in Qtys, p \in Prices, t \in Times :
          Apply(Order(Len(log) + 1, Len(log) + 1, c, "SELL", "LIMIT", q, p, t))

BurstLimitBuy ==
    /\ MaxAsks <= Len(log)
    /\ Len(log) < MaxBurstOrders
    /\ \E c \in Clients, q \in Qtys, p \in Prices, t \in Times :
          Apply(Order(Len(log) + 1, Len(log) + 1, c, "BUY", "LIMIT", q, p, t))

BurstMarketBuy ==
    /\ MaxAsks <= Len(log)
    /\ Len(log) < MaxBurstOrders
    /\ \E c \in Clients, q \in Qtys :
          Apply(Order(Len(log) + 1, Len(log) + 1, c, "BUY", "MARKET", q,
                      NoPrice, 1))

BurstCancel ==
    /\ MaxAsks <= Len(log)
    /\ Len(log) < MaxBurstOrders
    /\ \E c \in Clients, id \in 1..Len(log) :
          Apply(Order(Len(log) + 1, id, c, "BUY", "CANCEL", 0, NoPrice, 1))

NextBurst == BurstAsk \/ BurstLimitBuy \/ BurstMarketBuy \/ BurstCancel

SpecBurst == Init /\ [][NextBurst]_vars

\* ------------------------------------------------------------- the server
\* Datagrams the listener receives in one behaviour of SpecServer.
MaxFrames == 2

Addrs == {"u1", "u2"}
FrameIds == {NoId, 1}
FrameQtys == {0, 1, 2}
FramePrices == {0 - 1, 1}

\* A JSON object with one more key.
WithKey(order_data, key, value) == DictSet(order_data, key, value)

\* The object with an order_id key unless the client leaves the id out.
WithId(order_data, id) ==
    IF id = NoId THEN order_data ELSE WithKey(order_data, "order_id", id)

\* Requests as OrderClient.send_limit_order builds them, with or without a
\* client-chosen order_id, and the same without the price key.
LimitFrames ==
    { WithId(WithKey([client_id |-> c, symbol |-> sym, side |-> s,
                      order_type |-> "LIMIT", quantity |-> q],
                     "price", p), id) :
        c \in Clients, sym \in Symbols, s \in Sides, q \in FrameQtys,
        p \in FramePrices, id \in FrameIds }
    \cup
    { [client_id |-> c, symbol |-> sym, side |-> s,
       order_type |-> "LIMIT", quantity |-> 1] :
        c \in Clients, sym \in Symbols, s \in Sides }

\* Requests as OrderClient.send_market_order builds them.
MarketFrames ==
    { WithId([client_id |-> c, symbol |-> sym, side |-> s,
              order_type |-> "MARKET", quantity |-> q], id) :
        c \in Clients, sym \in Symbols, s \in Sides, q \in FrameQtys,
        id \in FrameIds }

\* Requests as OrderClient.send_cancel_order builds them (quantity 0), for a
\* client-chosen id or an id the server assigned to an earlier datagram, for
\* any symbol and side, and the same without the order_id key.
CancelFrames ==
    { WithId([client_id |-> c, symbol |-> sym, side |-> s,
              order_type |-> "CANCEL", quantity |-> 0], id) :
        c \in Clients, sym \in Symbols, s \in Sides,
        id \in FrameIds \cup { Uuid(k) : k \in 1..Len(recv_log) } }

\* Datagrams that are no JSON, lack a required field, or name no side or
\* order type; and a well-formed one written in lower case.
OddFrames ==
    { [garbage |-> TRUE],
      [client_id |-> "c1", symbol |-> "A", side |-> "BUY",
       order_type |-> "LIMIT", price |-> 1],
      [client_id |-> "c1", symbol |-> "A", side |-> "hold",
       order_type |-> "LIMIT", quantity |-> 1, price |-> 1],
      [client_id |-> "c1", symbol |-> "A", side |-> "BUY",
       order_type |-> "stop", quantity |-> 1, price |-> 1],
      [client_id |-> "c1", symbol |-> "A", side |-> "sell",
       order_type |-> "limit", quantity |-> 1, price |-> 1] }

\* The clock readings the listener can take for the next datagram: the
\* reading of the previous one or a later one.
Readings ==
    IF recv_log = << >> THEN {1}
    ELSE {recv_log[Len(recv_log)].now, recv_log[Len(recv_log)].now + 1}

\* The senders of the next datagram (the first sender is called u1).
Senders == IF recv_log = << >> THEN {"u1"} ELSE Addrs

\* One iteration of _network_loop (entered while running) that receives
\* datagram `data` from client_address: decode, parse, enqueue; or answer the
\* error at once.
Receive(data, client_address, now) ==
    LET h == Len(recv_log) + 1
        parsed == _parse_order(data, h, now)
    IN /\ running
       /\ "network" \in alive
       /\ recv_log' = Append(recv_log, [data |-> data,
                                        client_address |-> client_address,
                                        now |-> now])
       /\ IF "garbage" \in DOMAIN data
          THEN /\ sent' = Append(sent,
                     sendto(ErrorResponse("Invalid JSON format"),
                            client_address))
               /\ UNCHANGED order_queue
          ELSE IF parsed.exc # "none"
          THEN /\ sent' = Append(sent,
                     sendto(ErrorResponse("Parse error: " \o parsed.message),
                            client_address))
               /\ UNCHANGED order_queue
          ELSE /\ ~ Full(order_queue)
               /\ order_queue' = Append(order_queue,
                     [order |-> parsed.order, symbol |-> parsed.symbol,
                      client_address |-> client_address])
               /\ UNCHANGED sent
       /\ UNCHANGED << processor, response_queue, book, log, twin >>
       /\ UNCHANGED thread_vars

ReceiveLimit ==
    /\ Len(recv_log) < MaxFrames
    /\ \E data \in LimitFrames, client_address \in Senders, now \in Readings :
          Receive(data, client_address, now)

ReceiveMarket ==
    /\ Len(recv_log) < MaxFrames
    /\ \E data \in MarketFrames, client_address \in Senders, now \in Readings :
          Receive(data, client_address, now)

ReceiveCancel ==
    /\ Len(recv_log) < MaxFrames
    /\ \E data \in CancelFrames, client_address \in Senders, now \in Readings :
          Receive(data, client_address, now)

ReceiveOdd ==
    /\ Len(recv_log) < MaxFrames
    /\ \E data \in OddFrames, client_address \in Senders, now \in Readings :
          Receive(data, client_address, now)

NetworkLoop == ReceiveLimit \/ ReceiveMarket \/ ReceiveCancel \/ ReceiveOdd

\* A worker that takes the item put last.
ProcessingWorker_newest_first ==
    /\ running
    /\ "processing" \in alive
    /\ order_queue # << >>
    /\ \E item \in {order_queue[Len(order_queue)]} :
       \E result \in {process_order(processor, item.symbol, item.order)} :
          /\ order_queue' = SubSeq(order_queue, 1, Len(order_queue) - 1)
          /\ processor' = result.processor
          /\ response_queue' = Append(response_queue,
                 [response |-> AckResponse(item.order, result),
                  client_address |-> item.client_address])
    /\ UNCHANGED << recv_log, sent, book, log, twin >>
    /\ UNCHANGED thread_vars

\* One iteration of _processing_worker (entered while running) that finds an
\* item on order_queue.
ProcessingWorker ==
    /\ running
    /\ "processing" \in alive
    /\ order_queue # << >>
    /\ \E item \in {Head(order_queue)} :
       \E result \in {process_order(processor, item.symbol, item.order)} :
          /\ ~ Full(response_queue)
          /\ order_queue' = Tail(order_queue)
          /\ processor' = result.processor
          /\ response_queue' = Append(response_queue,
                 [response |-> AckResponse(item.order, result),
                  client_address |-> item.client_address])
    /\ UNCHANGED << recv_log, sent, book, log, twin >>
    /\ UNCHANGED thread_vars

\* One iteration of _response_worker (entered while running) that finds an
\* item on response_queue.
ResponseWorker ==
    /\ running
    /\ "response" \in alive
    /\ response_queue # << >>
    /\ response_queue' = Tail(response_queue)
    /\ sent' = Append(sent, sendto(Head(response_queue).response,
                                    Head(response_queue).client_address))
    /\ UNCHANGED << processor, order_queue, recv_log, book, log, twin >>
    /\ UNCHANGED thread_vars

NextServer == NetworkLoop \/ ProcessingWorker \/ ResponseWorker

SpecServer == Init /\ [][NextServer]_vars

\* ------------------------------------- the pipeline, start to shutdown
\* Datagrams the listener receives in one behaviour of SpecPipeline and of
\* SpecLifecycle.
MaxDatagrams == 3

\* Of these, the datagrams that are malformed.
MaxMalformed == 1

\* The well-formed datagrams of this specification: orders on one price and
\* a cancel, with ids left to the server or chosen (and reused) by the
\* client, and an order for a second symbol.
LifecycleFrames ==
    { [client_id |-> "c1", symbol |-> "A", side |-> "SELL",
       order_type |-> "LIMIT", quantity |-> 1, price |-> 1],
      [client_id |-> "c1", symbol |-> "A", side |-> "SELL",
       order_type |-> "LIMIT", quantity |-> 1, price |-> 1, order_id |-> 1],
      [client_id |-> "c1", symbol |-> "A", side |-> "BUY",
       order_type |-> "LIMIT", quantity |-> 2, price |-> 1],
      [client_id |-> "c1", symbol |-> "A", side |-> "BUY",
       order_type |-> "MARKET", quantity |-> 2],
      [client_id |-> "c1", symbol |-> "A", side |-> "BUY",
       order_type |-> "CANCEL", quantity |-> 0, order_id |-> Uuid(1)],
      [client_id |-> "c1", symbol |-> "B", side |-> "BUY",
       order_type |-> "LIMIT", quantity |-> 1, price |-> 1] }

\* A datagram _network_loop answers with an error: no JSON, a required field
\* missing, or a side or order type that is no member of its enum.
Malformed(data) ==
    IF "garbage" \in DOMAIN data THEN TRUE
    ELSE IF required_fields \ DOMAIN data # {} THEN TRUE
    ELSE \/ Upper(data.side) \notin {"BUY", "SELL"}
         \/ Upper(data.order_type) \notin {"MARKET", "LIMIT", "CANCEL"}

MalformedFrames == { data \in OddFrames : Malformed(data) }

\* The listener receives a datagram; the clock has advanced since the last.
Listen ==
    /\ Len(recv_log) < MaxDatagrams
    /\ \E data \in LifecycleFrames, client_address \in Senders :
          Receive(data, client_address, Len(recv_log) + 1)

ListenMalformed ==
    /\ Len(recv_log) < MaxDatagrams
    /\ Cardinality({ k \in 1..Len(recv_log) : Malformed(recv_log[k].data) })
          < MaxMalformed
    /\ \E data \in MalformedFrames, client_address \in Senders :
          Receive(data, client_address, Len(recv_log) + 1)

\* The server while it runs: the listener and the two workers.
NextPipeline == Listen \/ ListenMalformed \/ ProcessingWorker \/ ResponseWorker

SpecPipeline == Init /\ [][NextPipeline]_vars

\* The workers are scheduled: a worker that stays able to take its next step
\* takes it.  Nothing obliges a client to send a datagram.
SpecPipelineFair ==
    /\ SpecPipeline
    /\ WF_vars(ProcessingWorker)
    /\ WF_vars(ResponseWorker)

\* stop(): clear the flag and close the socket.  (The joins that follow wait
\* for the workers; they change nothing.)
Stop ==
    /\ running
    /\ running' = FALSE
    /\ UNCHANGED << alive, inflight, posted, observed, book, log, twin >>
    /\ UNCHANGED server_vars

\* A worker blocked in get() on an empty queue with no timeout: it wakes
\* only when an item arrives, and so tests the flag only then.
LeaveLoop_get_blocks(t) ==
    /\ ~ running
    /\ t \in alive
    /\ t \in Submitters => inflight[t] = Idle
    /\ t = "processing" => order_queue # << >>
    /\ t = "response" => response_queue # << >>
    /\ alive' = alive \ {t}
    /\ UNCHANGED << running, inflight, posted, observed, book, log, twin >>
    /\ UNCHANGED server_vars

\* A thread of the server finds running false at the head of its loop and
\* returns.  It gets there from wherever it was: recvfrom and get() return
\* or raise within their timeout (recvfrom fails at once on the closed
\* socket), and a worker that holds an item finishes it first.
LeaveLoop(t) ==
    /\ ~ running
    /\ t \in alive
    /\ t \in Submitters => inflight[t] = Idle
    /\ alive' = alive \ {t}
    /\ UNCHANGED << running, inflight, posted, observed, book, log, twin >>
    /\ UNCHANGED server_vars

NetworkLeaves == LeaveLoop("network")

ProcessingLeaves == LeaveLoop("processing")

ResponseLeaves == LeaveLoop("response")

NextLifecycle ==
    \/ NextPipeline
    \/ Stop
    \/ NetworkLeaves
    \/ ProcessingLeaves
    \/ ResponseLeaves

SpecLifecycle == Init /\ [][NextLifecycle]_vars

\* The workers and the threads leaving their loops are scheduled.  Nothing
\* obliges a client to send a datagram or the operator to call stop().
SpecLifecycleFair ==
    /\ SpecLifecycle
    /\ WF_vars(ProcessingWorker)
    /\ WF_vars(ResponseWorker)
    /\ WF_vars(NetworkLeaves)
    /\ WF_vars(ProcessingLeaves)
    /\ WF_vars(ResponseLeaves)

\* ------------------------------------------- the server in the dashboard
\* web_dashboard runs the UDP server in one process with the Flask handlers
\* and the broadcast thread.  process_order is then called by two threads,
\* and between its statements another thread can run: here a call is taken
\* in steps (the request is taken; get_or_create_order_book, under the lock;
\* add_order up to "Update statistics"; the statistics; the counter's read;
\* its write and the return), and the reader can read between any two of
\* them.  The response
\* worker is left out: the acknowledgements stay on response_queue.
MaxDashboardDatagrams == 1

MaxPosts == 1

\* The datagrams and the POST bodies of this specification.
DashboardFrames ==
    { [client_id |-> "c1", symbol |-> "A", side |-> "SELL",
       order_type |-> "LIMIT", quantity |-> 1, price |-> 1],
      [client_id |-> "c1", symbol |-> "A", side |-> "BUY",
       order_type |-> "MARKET", quantity |-> 1],
      [client_id |-> "c1", symbol |-> "B", side |-> "BUY",
       order_type |-> "LIMIT", quantity |-> 1, price |-> 1] }

PostBodies ==
    { [client_id |-> "c1", symbol |-> "A", side |-> "BUY",
       order_type |-> "LIMIT", quantity |-> 1, price |-> 1],
      [client_id |-> "c1", symbol |-> "B", side |-> "BUY",
       order_type |-> "LIMIT", quantity |-> 1, price |-> 1] }

\* The clock advances with every request taken, by either door.
DashboardClock == Len(recv_log) + Len(posted) + 1

\* The Order object built for the k-th POST (the datagrams' are 1, 2, ...).
PostH(k) == 0 - k

DashboardListen ==
    /\ Len(recv_log) < MaxDashboardDatagrams
    /\ \E data \in DashboardFrames : Receive(data, "u1", DashboardClock)

\* The submitter's locals once it holds a request.
Entered(order, symbol, client_address) ==
    [stage |-> "entered", order |-> order, symbol |-> symbol,
     client_address |-> client_address]

\* _processing_worker takes the head of order_queue.
TakeFromQueue ==
    /\ running
    /\ "processing" \in alive
    /\ inflight["processing"] = Idle
    /\ order_queue # << >>
    /\ order_queue' = Tail(order_queue)
    /\ inflight' = [inflight EXCEPT !["processing"] =
                       Entered(Head(order_queue).order,
                               Head(order_queue).symbol,
                               Head(order_queue).client_address)]
    /\ UNCHANGED << processor, response_queue, recv_log, sent, book, log, twin,
                    running, alive, posted, observed >>

\* api_submit_order builds the Order of a POST body, as _parse_order does.
Post ==
    /\ inflight["http"] = Idle
    /\ Len(posted) < MaxPosts
    /\ \E data \in PostBodies :
       \E parsed \in {_parse_order(data, PostH(Len(posted) + 1),
                                   DashboardClock)} :
          /\ posted' = Append(posted, data)
          /\ inflight' = [inflight EXCEPT !["http"] =
                             Entered(parsed.order, parsed.symbol, "http")]
    /\ UNCHANGED << running, alive, observed, book, log, twin >>
    /\ UNCHANGED server_vars

\* process_order, first statement: get_or_create_order_book (one step: it
\* holds OrderProcessor.lock from the test to the store).
GetBook(t) ==
    /\ inflight[t].stage = "entered"
    /\ processor' = [processor EXCEPT !.order_books =
                        get_or_create_order_book(@, inflight[t].symbol)]
    /\ inflight' = [inflight EXCEPT ![t].stage = "matching"]
    /\ UNCHANGED << order_queue, response_queue, recv_log, sent, book, log, twin,
                    running, alive, posted, observed >>

\* The book add_order has made of `before` when it reaches "Update
\* statistics" (or raises): outcome r without the statistics.
BeforeStatistics(before, r) ==
    [r.book EXCEPT !.trades = before.trades,
                   !.total_volume = before.total_volume,
                   !.total_trades = before.total_trades]

\* add_order on the book the submitter holds, up to "Update statistics".
Match(t) ==
    /\ inflight[t].stage = "matching"
    /\ \E before \in {processor.order_books[inflight[t].symbol]} :
       \E r \in {add_order(before, inflight[t].order)} :
          /\ processor' = [processor EXCEPT
                 !.order_books[inflight[t].symbol] = BeforeStatistics(before, r)]
          /\ inflight' = [inflight EXCEPT ![t] =
                 [stage |-> IF r.exc = "none" /\ r.trades # << >>
                            THEN "statistics" ELSE "returning",
                  order |-> inflight[t].order,
                  symbol |-> inflight[t].symbol,
                  client_address |-> inflight[t].client_address,
                  before |-> before,
                  trades |-> r.trades,
                  exc |-> r.exc]]
    /\ UNCHANGED << order_queue, response_queue, recv_log, sent, book, log, twin,
                    running, alive, posted, observed >>

\* "Update statistics" for the executions of this call.
Statistics(t) ==
    /\ inflight[t].stage = "statistics"
    /\ processor' = [processor EXCEPT
           !.order_books[inflight[t].symbol] =
               UpdateStatistics(@, inflight[t].trades)]
    /\ inflight' = [inflight EXCEPT ![t].stage = "returning"]
    /\ UNCHANGED << order_queue, response_queue, recv_log, sent, book, log, twin,
                    running, alive, posted, observed >>

\* self.total_orders_processed += 1, first half: the thread reads the
\* counter.  The statement is a read, an addition and a write, and no lock
\* is held: another thread can run before the write.
LoadCounter(t) ==
    /\ inflight[t].stage = "returning"
    /\ inflight[t].exc = "none"
    /\ inflight' = [inflight EXCEPT ![t] =
           [stage |-> "counting",
            order |-> inflight[t].order,
            symbol |-> inflight[t].symbol,
            client_address |-> inflight[t].client_address,
            before |-> inflight[t].before,
            trades |-> inflight[t].trades,
            exc |-> inflight[t].exc,
            counter |-> processor.total_orders_processed]]
    /\ UNCHANGED << running, alive, posted, observed, book, log, twin >>
    /\ UNCHANGED server_vars

\* The value the counter is computed from: the one this thread read.
CounterRead(t) ==
    IF inflight[t].stage = "counting" THEN inflight[t].counter
    ELSE processor.total_orders_processed

\* The rest of process_order (the counter's write, the tuple returned, or
\* the except clause) and what its caller does with the result: the worker
\* enqueues the acknowledgement, the handler answers its HTTP client.
Return(t) ==
    /\ \/ inflight[t].stage = "counting"
       \/ inflight[t].stage = "returning" /\ inflight[t].exc # "none"
    /\ \E result \in
          {ProcessResult([processor EXCEPT
                             !.total_orders_processed = CounterRead(t)],
                         inflight[t].symbol, processor.order_books,
                         Outcome(processor.order_books[inflight[t].symbol],
                                 inflight[t].trades, inflight[t].exc))} :
          /\ processor' = result.processor
          /\ response_queue' =
                IF t = "processing"
                THEN Append(response_queue,
                            [response |-> AckResponse(inflight[t].order, result),
                             client_address |-> inflight[t].client_address])
                ELSE response_queue
    /\ inflight' = [inflight EXCEPT ![t] = Idle]
    /\ UNCHANGED << order_queue, recv_log, sent, book, log, twin,
                    running, alive, posted, observed >>

\* get_order_book_snapshots, called by broadcast_updates and by the GET
\* handlers: a snapshot of every book of the registry.
Read ==
    /\ observed' =
           [sym \in DOMAIN processor.order_books |->
               get_order_book_snapshot(processor.order_books[sym],
                                       DefaultDepth)]
    /\ UNCHANGED << running, alive, inflight, posted, book, log, twin >>
    /\ UNCHANGED server_vars

SubmitterGetsBook == \E t \in Submitters : GetBook(t)

SubmitterMatches == \E t \in Submitters : Match(t)

SubmitterStatistics == \E t \in Submitters : Statistics(t)

SubmitterLoadsCounter == \E t \in Submitters : LoadCounter(t)

SubmitterReturns == \E t \in Submitters : Return(t)

NextDashboard ==
    \/ DashboardListen
    \/ TakeFromQueue
    \/ Post
    \/ SubmitterGetsBook
    \/ SubmitterMatches
    \/ SubmitterStatistics
    \/ SubmitterLoadsCounter
    \/ SubmitterReturns
    \/ Read

SpecDashboard == Init /\ [][NextDashboard]_vars

\* ------------------------------------------------ stop() during an item
\* Datagrams the listener receives in one behaviour of SpecShutdown: one can
\* be acknowledged while another still waits on order_queue.
MaxShutdownDatagrams == 2

ShutdownListen ==
    /\ Len(recv_log) < MaxShutdownDatagrams
    /\ \E data \in DashboardFrames :
          Receive(data, "u1", Len(recv_log) + 1)

\* The server of SpecLifecycle with the processing worker's iteration taken
\* in the steps above, so that stop() can come while the worker holds an
\* item: it finishes the call and enqueues the acknowledgement before it
\* tests the flag again.
NextShutdown ==
    \/ ShutdownListen
    \/ TakeFromQueue
    \/ SubmitterGetsBook
    \/ SubmitterMatches
    \/ SubmitterStatistics
    \/ SubmitterLoadsCounter
    \/ SubmitterReturns
    \/ ResponseWorker
    \/ Stop
    \/ NetworkLeaves
    \/ ProcessingLeaves
    \/ ResponseLeaves

SpecShutdown == Init /\ [][NextShutdown]_vars

\* Every thread is scheduled: a thread that stays able to take its next step
\* takes it.  Nothing obliges a client to send a datagram or the operator to
\* call stop().
SpecShutdownFair ==
    /\ SpecShutdown
    /\ WF_vars(TakeFromQueue)
    /\ WF_vars(SubmitterGetsBook)
    /\ WF_vars(SubmitterMatches)
    /\ WF_vars(SubmitterStatistics)
    /\ WF_vars(SubmitterLoadsCounter)
    /\ WF_vars(SubmitterReturns)
    /\ WF_vars(ResponseWorker)
    /\ WF_vars(NetworkLeaves)
    /\ WF_vars(ProcessingLeaves)
    /\ WF_vars(ResponseLeaves)

\* ------------------------------------------------- cancels in a deep book
\* MaxRestingAsks LIMIT SELL orders of one lot arrive with server-assigned
\* ids and rest; then cancels arrive, MaxDeepOrders requests in all.  The
\* book is deep enough for list.pop(i) to leave an array that heapify has to
\* repair at more than one position.
MaxRestingAsks == 6

MaxDeepOrders == 7

DeepAsk ==
    /\ Len(log) < MaxRestingAsks
    /\ \E p \in Prices, t \in Times :
          Apply(Order(Len(log) + 1, Len(log) + 1, "c1", "SELL", "LIMIT", 1, p, t))

DeepCancel ==
    /\ Len(log) >= MaxRestingAsks
    /\ Len(log) < MaxDeepOrders
    /\ \E id \in 1..MaxRestingAsks :
          Apply(Order(Len(log) + 1, id, "c1", "BUY", "CANCEL", 0, NoPrice, 1))

NextDeep == DeepAsk \/ DeepCancel

SpecDeep == Init /\ [][NextDeep]_vars

\* ------------------------------------------------- one sequence, two runs
\* The same requests are applied to two books that start empty; a request
\* of the second run differs from the first run's in its client_id at most.
\* The requests are a burst at one price on a coarse clock (every Order
\* carries the same reading), so that books of three resting orders are
\* reached.  MaxTwinOrders requests are applied to each book.
MaxTwinOrders == 4

TwinLimitOrders(h) ==
    { o \in LimitOrders(h) : o.price = 1 /\ o.timestamp = 1 }

\* add_order(order) on the first book and add_order(other) on the second.
ApplyBoth(order, other) ==
    \E r \in {add_order(book, order)} :
    \E r2 \in {add_order(twin.book, other)} :
       /\ book' = r.book
       /\ log' = Append(log, [order |-> order, resting |-> RestingIds(book),
                              exc |-> r.exc, trades |-> r.trades])
       /\ twin' = [book |-> r2.book, exc |-> r2.exc, trades |-> r2.trades]
       /\ UNCHANGED server_vars
       /\ UNCHANGED thread_vars

TwinLimit ==
    /\ Len(log) < MaxTwinOrders
    /\ \E o \in TwinLimitOrders(Len(log) + 1), c \in TwinClients :
          ApplyBoth(o, [o EXCEPT !.client_id = c])

TwinMarket ==
    /\ Len(log) < MaxTwinOrders
    /\ \E o \in MarketOrders(Len(log) + 1), c \in TwinClients :
          ApplyBoth(o, [o EXCEPT !.client_id = c])

TwinCancel ==
    /\ Len(log) < MaxTwinOrders
    /\ \E o \in CancelOrders(Len(log) + 1), c \in TwinClients :
          ApplyBoth(o, [o EXCEPT !.client_id = c])

NextTwin == TwinLimit \/ TwinMarket \/ TwinCancel

SpecTwin == Init /\ [][NextTwin]_vars

\* ------------------------------------------------------------------ claims
Buys(b) == { b.buy_orders[i] : i \in 1..Len(b.buy_orders) }

Sells(b) == { b.sell_orders[i] : i \in 1..Len(b.sell_orders) }

\* The record of the request applied last.
Last == log[Len(log)]

\* All lists returned so far, concatenated.
RECURSIVE Returned(_)
Returned(l) ==
    IF l = << >> THEN << >>
    ELSE Returned(SubSeq(l, 1, Len(l) - 1)) \o l[Len(l)].trades

\* The trades of a list that name order o on its own side.
Naming(ts, o) ==
    { k \in 1..Len(ts) :
        IF o.side = "BUY" THEN ts[k].buy_order_id = o.order_id
        ELSE ts[k].sell_order_id = o.order_id }

RECURSIVE SumOver(_, _)
SumOver(ts, ks) ==
    IF ks = {} THEN 0
    ELSE LET k == CHOOSE x \in ks : TRUE
         IN ts[k].quantity + SumOver(ts, ks \ {k})

\* Quantity executed for order o according to the retained trade history.
Fills(o) == SumOver(book.trades, Naming(book.trades, o))

\* Quantity of the Order object o that still rests, 0 when it does not rest.
RemainingOnBook(o) ==
    IF \E e \in Resting(book) : e.order.h = o.h
    THEN (CHOOSE e \in Resting(book) : e.order.h = o.h).order.quantity
    ELSE 0

Cancelled(order_id) ==
    \E j \in 1..Len(log) :
        /\ log[j].order.order_type = "CANCEL"
        /\ log[j].order.order_id = order_id

\* C1: whenever both sides are non-empty, the highest resting buy price is
\* strictly less than the lowest resting sell price (the book is never
\* crossed).
C1_NoCrossedBook ==
    \A b \in Buys(book), a \in Sells(book) : b.order.price < a.order.price

\* C2: of two orders resting on the same side at the same price, the one with
\* the earlier timestamp is matched first: a request's executions name the
\* later one only if the earlier one is fully filled by then (no longer
\* resting after the request).
C2_Step ==
    \A e1 \in Resting(book), e2 \in Resting(book) :
        ( /\ e1.order.side = e2.order.side
          /\ e1.order.price = e2.order.price
          /\ e1.ts < e2.ts
          /\ Naming(log'[Len(log')].trades, e2.order) # {} )
        => ~ \E x \in Resting(book') : x.order.h = e1.order.h

C2_PriceTimePriority == [][C2_Step]_vars

\* C3: every execution returned by add_order has the limit price of the order
\* that was resting before the match, that price is > 0, the buyer named is a
\* BUY order and the seller named is a SELL order.
C3_Step ==
    LET o == log'[Len(log')].order
        ts == log'[Len(log')].trades
    IN \A k \in 1..Len(ts) :
          /\ ts[k].price > 0
          /\ o.side = "BUY" =>
                /\ ts[k].buy_order_id = o.order_id
                /\ \E e \in Sells(book) :
                      /\ e.order.order_id = ts[k].sell_order_id
                      /\ e.order.price = ts[k].price
          /\ o.side = "SELL" =>
                /\ ts[k].sell_order_id = o.order_id
                /\ \E e \in Buys(book) :
                      /\ e.order.order_id = ts[k].buy_order_id
                      /\ e.order.price = ts[k].price

C3_ExecutionAtPassivePrice == [][C3_Step]_vars

\* C4: conservation of quantity.  For every LIMIT order admitted with
\* quantity q > 0 and never cancelled, q = (quantities of the executions that
\* name it) + (its remaining quantity on the book); for every MARKET order
\* the executions that name it sum to at most q.
C4_Conservation ==
    \A i \in 1..Len(log) :
        LET o == log[i].order
        IN /\ ( /\ o.order_type = "LIMIT"
                /\ o.quantity > 0
                /\ ~Cancelled(o.order_id) )
              => o.quantity = Fills(o) + RemainingOnBook(o)
           /\ o.order_type = "MARKET" => Fills(o) <= o.quantity

\* C5: after a MARKET order whose id was not on the book has been processed,
\* no resting order carries its id: the residue is discarded, never rested.
C5_MarketNeverRests ==
    ( /\ Len(log) > 0
      /\ Last.order.order_type = "MARKET"
      /\ Last.order.order_id \notin Last.resting )
    => Last.order.order_id \notin RestingIds(book)

\* A MARKET order, its id new to the book, has just been filled in part: it
\* traded, its residue was dropped and nothing rests under its id.
C5_Witness ==
    /\ Len(log) > 0
    /\ Last.order.order_type = "MARKET"
    /\ Last.order.order_id \notin Last.resting
    /\ Last.trades # << >>
    /\ SumQty(Last.trades) < Last.order.quantity
    /\ Last.order.order_id \notin RestingIds(book)

\* C6: between requests the key set of orders_by_id equals the set of ids
\* resting on either side.
C6_IndexIsRestingIds == DOMAIN book.orders_by_id = RestingIds(book)

\* C7: between requests no order_id occurs in more than one resting entry
\* across the two sides.
C7_UniqueRestingIds ==
    /\ \A i, j \in 1..Len(book.buy_orders) :
          i # j => book.buy_orders[i].order.order_id
                      # book.buy_orders[j].order.order_id
    /\ \A i, j \in 1..Len(book.sell_orders) :
          i # j => book.sell_orders[i].order.order_id
                      # book.sell_orders[j].order.order_id
    /\ \A b \in Buys(book), a \in Sells(book) :
          b.order.order_id # a.order.order_id

\* C8: total_volume is the sum of the quantities of all executions add_order
\* has returned and total_trades their number; both equal the same sums over
\* the retained trade history.
C8_StatisticsMatchExecutions ==
    /\ book.total_volume = SumQty(Returned(log))
    /\ book.total_trades = Len(Returned(log))
    /\ book.total_volume = SumQty(book.trades)
    /\ book.total_trades = Len(book.trades)

\* One request has produced two executions and the counters show them.
C8_Witness ==
    /\ Len(log) > 0
    /\ Len(Last.trades) = 2
    /\ book.total_trades = 2
    /\ book.total_volume = 2

\* C9: between requests every resting order has remaining quantity >= 1 (an
\* order filled down to 0 is removed in the same request).
C9_RestingQuantityPositive ==
    \A e \in Resting(book) : e.order.quantity >= 1

\* The last request filled one resting order completely, which is gone, and
\* another in part, which rests with what is left.
C9_Witness ==
    /\ Len(log) > 0
    /\ Len(Last.trades) = 2
    /\ Last.resting \ RestingIds(book) # {}
    /\ \E e \in Resting(book) :
          /\ e.order.h < Len(log)
          /\ e.order.quantity < log[e.order.h].order.quantity

\* C10: after a CANCEL whose order_id names a resting order, that order is on
\* neither side and not in orders_by_id, the CANCEL yields no execution, and
\* no later request produces an execution naming the order (unless the id
\* has been submitted again since).
C10_CancelRemovesOrder ==
    \A i \in 1..Len(log) :
        LET o == log[i].order
        IN ( o.order_type = "CANCEL" /\ o.order_id \in log[i].resting ) =>
              /\ log[i].trades = << >>
              /\ i = Len(log) =>
                    /\ o.order_id \notin RestingIds(book)
                    /\ o.order_id \notin DOMAIN book.orders_by_id
              /\ \A j \in (i + 1)..Len(log) :
                    ( \E k \in 1..Len(log[j].trades) :
                         \/ log[j].trades[k].buy_order_id = o.order_id
                         \/ log[j].trades[k].sell_order_id = o.order_id )
                    => \E m \in (i + 1)..j :
                          /\ log[m].order.order_type # "CANCEL"
                          /\ log[m].order.order_id = o.order_id

\* A CANCEL request for order_id as the client builds it.
CancelRequest(order_id) ==
    Order(Len(log) + 1, order_id, CHOOSE c \in Clients : TRUE, "BUY",
          "CANCEL", 0, NoPrice, 1)

\* C11: cancelling is idempotent: on every book, applying CANCEL(id) twice
\* leaves the book that applying it once leaves, and the second CANCEL finds
\* nothing under the id to remove.
C11_CancelIdempotent ==
    \A id \in Ids \cup RestingIds(book) \cup DOMAIN book.orders_by_id :
        LET once == add_order(book, CancelRequest(id))
            twice == add_order(once.book, CancelRequest(id))
        IN /\ twice.book = once.book
           /\ id \notin DOMAIN once.book.orders_by_id

\* The resting quantity of a set of entries, summed.
RECURSIVE SumResting(_)
SumResting(es) ==
    IF es = {} THEN 0
    ELSE LET e == CHOOSE x \in es : TRUE
         IN e.order.quantity + SumResting(es \ {e})

\* The entries of a set that rest at price p.
AtPrice(es, p) == { e \in es : e.order.price = p }

\* The highest resting buy price and the lowest resting sell price.
BestBidPrice(b) ==
    CHOOSE p \in { e.order.price : e \in Buys(b) } :
        \A e \in Buys(b) : e.order.price <= p

BestAskPrice(b) ==
    CHOOSE p \in { e.order.price : e \in Sells(b) } :
        \A e \in Sells(b) : e.order.price >= p

\* C14: best_bid and best_ask return nothing when their side is empty and
\* otherwise the pair (p, q) where p is the best price on that side and q is
\* the sum of the remaining quantities of all orders resting at p.
C14_BestIsAggregate ==
    /\ get_best_bid(book) =
         IF Buys(book) = {} THEN << >>
         ELSE << BestBidPrice(book),
                 SumResting(AtPrice(Buys(book), BestBidPrice(book))) >>
    /\ get_best_ask(book) =
         IF Sells(book) = {} THEN << >>
         ELSE << BestAskPrice(book),
                 SumResting(AtPrice(Sells(book), BestAskPrice(book))) >>

\* The depths a snapshot is asked for.
Depths == {1, 2, DefaultDepth}

\* The levels of one side of a snapshot are the top `depth` distinct price
\* levels of the resting entries es: as many as there are (up to depth), each
\* price once and in priority order (sign = 1: ascending, sign = -1:
\* descending), each with the summed quantity resting at its price, and no
\* resting price better than a listed one left out.
TopLevels(levels, es, depth, sign) ==
    LET prices == { e.order.price : e \in es }
        wanted == IF Cardinality(prices) < depth THEN Cardinality(prices)
                  ELSE depth
    IN /\ Len(levels) = wanted
       /\ \A i \in 1..Len(levels) :
            /\ levels[i].price \in prices
            /\ levels[i].quantity = SumResting(AtPrice(es, levels[i].price))
            /\ \A j \in (i + 1)..Len(levels) :
                  sign * levels[i].price < sign * levels[j].price
            /\ \A e \in es :
                  sign * e.order.price < sign * levels[i].price
                      => \E j \in 1..Len(levels) :
                            levels[j].price = e.order.price

\* C15: snapshot(depth) returns per side the top `depth` distinct price
\* levels in priority order, each with the summed resting quantity at that
\* price; no order resting at a better price is omitted while a worse-priced
\* one is listed.
C15_SnapshotTopLevels ==
    \A depth \in Depths :
        LET snap == get_order_book_snapshot(book, depth)
        IN /\ TopLevels(snap.buy_levels, Buys(book), depth, 0 - 1)
           /\ TopLevels(snap.sell_levels, Sells(book), depth, 1)

\* The entries of book b that hold the Order object of request o.
EntriesOf(b, o) == { e \in Resting(b) : e.order.h = o.h }

\* C16: a LIMIT order filled completely on arrival does not rest; one filled
\* only partly (or not at all) rests on its own side at its original limit
\* price with remaining quantity equal to its original quantity minus the
\* sum of its executions; the resting counterparty of a partial fill keeps
\* its place at the head of its side with its quantity reduced by the fill.
C16_Step ==
    (Len(log') = Len(log) + 1 /\ log'[Len(log')].order.order_type = "LIMIT")
    => LET o == log'[Len(log')].order
           ts == log'[Len(log')].trades
           filled == SumQty(ts)
           opp == OppSide(book, o)
           opp2 == OppSide(book', o)
       IN /\ (filled = o.quantity) => EntriesOf(book', o) = {}
          /\ (filled < o.quantity) =>
                /\ Cardinality(EntriesOf(book', o)) = 1
                /\ \A e \in EntriesOf(book', o) :
                      /\ e.order.side = o.side
                      /\ e.order.price = o.price
                      /\ e.order.quantity = o.quantity - filled
                /\ \A i \in 1..Len(OwnSide(book', o)) :
                      OwnSide(book', o)[i].order.h = o.h
                          => OwnSide(book', o)[i].key = HeapKey(o)
          /\ \A i \in 1..Len(opp) :
                (\E j \in 1..Len(opp2) :
                    /\ opp2[j].order.h = opp[i].order.h
                    /\ opp2[j].order.quantity # opp[i].order.quantity)
                => /\ ts # << >>
                   /\ opp2[1].order.h = opp[i].order.h
                   /\ opp2[1].order.quantity =
                        opp[i].order.quantity - ts[Len(ts)].quantity

C16_LimitRestsRemainder == [][C16_Step]_vars

\* The id a trade gives for the resting side when order o is the aggressor.
PassiveId(o, t) ==
    IF o.side = "BUY" THEN t.sell_order_id ELSE t.buy_order_id

\* Entry x is ahead of entry y on their side: a better price, or the same
\* price and an earlier timestamp.
Ahead(x, y) ==
    \/ (IF x.order.side = "BUY" THEN x.order.price > y.order.price
        ELSE x.order.price < y.order.price)
    \/ (x.order.price = y.order.price /\ x.ts < y.ts)

\* C17: the executions returned for one incoming order are in the order they
\* occurred, each against the resting order first in price-time priority at
\* that moment: the first one names an order nothing was ahead of, a later
\* one never names an order that was ahead of an earlier one's, and the
\* prices are non-decreasing for a BUY aggressor and non-increasing for a
\* SELL aggressor.
C17_Step ==
    LET o == log'[Len(log')].order
        ts == log'[Len(log')].trades
        opp == { OppSide(book, o)[i] : i \in 1..Len(OppSide(book, o)) }
        named(k) == { e \in opp : e.order.order_id = PassiveId(o, ts[k]) }
    IN /\ ts # << >> =>
             \E e \in named(1) : \A x \in opp : ~Ahead(x, e)
       /\ \A k \in 1..(Len(ts) - 1) :
             /\ \E e1 \in named(k), e2 \in named(k + 1) : ~Ahead(e2, e1)
             /\ o.side = "BUY" => ts[k].price <= ts[k + 1].price
             /\ o.side = "SELL" => ts[k].price >= ts[k + 1].price

C17_ExecutionsInPriorityOrder == [][C17_Step]_vars

\* A well-formed order: a LIMIT order with quantity > 0 and price > 0, a
\* MARKET order with quantity > 0, or a CANCEL.
WellFormed(o) ==
    \/ o.order_type = "LIMIT" /\ o.quantity > 0
          /\ o.price # NoPrice /\ o.price > 0
    \/ o.order_type = "MARKET" /\ o.quantity > 0
    \/ o.order_type = "CANCEL"

\* C18: add_order returns normally, with a possibly empty list of executions,
\* for every well-formed order and every book state: also when an order with
\* the same price and the same timestamp already rests, and when the order_id
\* has been used before.
C18_AddOrderNeverRaises ==
    \A i \in 1..Len(log) : WellFormed(log[i].order) => log[i].exc = "none"

\* A step in which the listener received a datagram / the processing worker
\* applied the order at the head of the request queue.
ReceiveStep == Len(recv_log') = Len(recv_log) + 1

ProcessStep == order_queue # << >> /\ order_queue' = Tail(order_queue)

\* The datagram received in a ReceiveStep, and the order applied and the
\* acknowledgement enqueued in a ProcessStep.
Received == recv_log'[Len(recv_log')]

Applied == Head(order_queue)

Ack == response_queue'[Len(response_queue')].response

\* The ids resting on any book of a registry.
RestingAnywhere(order_books) ==
    UNION { RestingIds(order_books[sym]) : sym \in DOMAIN order_books }

\* A datagram that is a JSON object with the required fields and names
\* order type `kind`.
Names(data, kind) ==
    /\ required_fields \subseteq DOMAIN data
    /\ Upper(data.order_type) = kind

\* C12: a CANCEL request for an order_id that is not on the book is
\* acknowledged with success = true, message "not found" and an empty trades
\* list, and changes no book.
C12_Step ==
    ( /\ ProcessStep
      /\ Applied.order.order_type = "CANCEL"
      /\ Applied.order.order_id \notin RestingAnywhere(processor.order_books) )
    => /\ Ack.success = TRUE
       /\ Ack.message = "not found"
       /\ Ack.trades = << >>
       /\ processor'.order_books = processor.order_books

C12_UnknownCancelNotFound == [][C12_Step]_vars

\* C13: a CANCEL request removes the resting order whose id equals its
\* order_id whatever symbol, side, quantity and price the CANCEL carries: if
\* order X rests on the book of some symbol, X rests on no book once the
\* CANCEL for X has been applied.
C13_Step ==
    ( /\ ProcessStep
      /\ Applied.order.order_type = "CANCEL"
      /\ Applied.order.order_id \in RestingAnywhere(processor.order_books) )
    => Applied.order.order_id \notin RestingAnywhere(processor'.order_books)

C13_CancelIgnoresOtherFields == [][C13_Step]_vars

\* C19: a LIMIT or MARKET request whose quantity is zero or negative is
\* rejected at ingress: its sender gets a negative acknowledgement, the order
\* is not placed on the request queue, and no book or id index changes.
C19_Step ==
    /\ ( /\ ReceiveStep
         /\ Names(Received.data, "LIMIT") \/ Names(Received.data, "MARKET")
         /\ Received.data.quantity <= 0 )
       => /\ order_queue' = order_queue
          /\ Len(sent') = Len(sent) + 1
          /\ sent'[Len(sent')].response.success = FALSE
          /\ sent'[Len(sent')].client_address = Received.client_address
    /\ ( /\ ProcessStep
         /\ Applied.order.order_type \in {"LIMIT", "MARKET"}
         /\ Applied.order.quantity <= 0 )
       => processor'.order_books = processor.order_books

C19_NonPositiveQuantityRejected == [][C19_Step]_vars

\* C20: a LIMIT request with no price, or with a price that is zero or
\* negative, is answered with a negative acknowledgement and causes no engine
\* state change (no book is created, nothing is added to a side or an id
\* index), and every resting order on every book has a price > 0.
C20_Step ==
    /\ ( /\ ReceiveStep
         /\ Names(Received.data, "LIMIT")
         /\ ("price" \notin DOMAIN Received.data
                \/ Received.data.price <= 0) )
       => \/ /\ order_queue' = order_queue
             /\ Len(sent') = Len(sent) + 1
             /\ sent'[Len(sent')].response.success = FALSE
          \/ /\ order_queue' # order_queue
             /\ order_queue'[Len(order_queue')].order.price <= 0
    /\ ( /\ ProcessStep
         /\ Applied.order.order_type = "LIMIT"
         /\ Applied.order.price <= 0 )
       => /\ Ack.success = FALSE
          /\ processor'.order_books = processor.order_books
    /\ \A sym \in DOMAIN processor'.order_books :
          \A e \in Resting(processor'.order_books[sym]) : e.order.price > 0

C20_BadLimitPriceRejected == [][C20_Step]_vars

\* C21: a CANCEL request that carries no order_id is malformed: its sender
\* gets a negative acknowledgement and the request never reaches the matcher
\* (it is not enqueued, so no book is created or changed for it and no
\* order id is generated for it).
C21_Step ==
    ( /\ ReceiveStep
      /\ Names(Received.data, "CANCEL")
      /\ Upper(Received.data.side) \in Sides
      /\ "order_id" \notin DOMAIN Received.data )
    => /\ order_queue' = order_queue
       /\ Len(sent') = Len(sent) + 1
       /\ sent'[Len(sent')].response.success = FALSE
       /\ sent'[Len(sent')].client_address = Received.client_address

C21_CancelNeedsOrderId == [][C21_Step]_vars

\* C22: a datagram that is not parseable, lacks one of client_id, symbol,
\* side, order_type, quantity, or whose side or order_type (compared without
\* regard to case) is no member of its enum, gets a negative acknowledgement
\* sent to its sender and leaves the request queue, the registry and every
\* book unchanged.
C22_Step ==
    ( ReceiveStep /\ Malformed(Received.data) )
    => /\ order_queue' = order_queue
       /\ processor' = processor
       /\ response_queue' = response_queue
       /\ Len(sent') = Len(sent) + 1
       /\ SubSeq(sent', 1, Len(sent)) = sent
       /\ sent'[Len(sent')].response.success = FALSE
       /\ sent'[Len(sent')].client_address = Received.client_address
       /\ sent'[Len(sent')].exc = "none"

C22_MalformedRefused == [][C22_Step]_vars

\* A malformed datagram has been refused while an order rests on a book and
\* another request waits on the queue.
C22_Witness ==
    /\ \E k \in 1..Len(recv_log) :
          /\ Malformed(recv_log[k].data)
          /\ k = Len(recv_log)
          /\ recv_log[k].client_address = "u2"
    /\ sent # << >>
    /\ sent[Len(sent)].response.success = FALSE
    /\ RestingAnywhere(processor.order_books) # {}
    /\ order_queue # << >>

\* The acknowledgements among a sequence of responses (an error response of
\* the listener names no order), and how many there are.
IsAck(item) == "order_id" \in DOMAIN item.response

Acks(items) == { k \in 1..Len(items) : IsAck(items[k]) }

\* The datagrams received so far that the listener enqueued.
Enqueued == { k \in 1..Len(recv_log) : ~ Malformed(recv_log[k].data) }

\* C23: the orders the listener places on the request queue are applied by
\* the processing worker in the order of their enqueueing, none before an
\* earlier one and each at most once: the queue holds the orders in the
\* order of their datagrams, it changes only by the listener appending and
\* by the worker removing its head, the worker applies and acknowledges
\* exactly the head it removes, and every enqueued order is either still
\* queued or acknowledged once.
C23_Step ==
    /\ \A i \in 1..Len(order_queue'), j \in 1..Len(order_queue') :
          i < j => order_queue'[i].order.h < order_queue'[j].order.h
    /\ (order_queue' # order_queue /\ ~ ReceiveStep)
          => order_queue # << >> /\ order_queue' = Tail(order_queue)
    /\ (response_queue' # response_queue /\ Len(response_queue') > Len(response_queue))
          => /\ order_queue # << >>
             /\ order_queue' = Tail(order_queue)
             /\ response_queue' = Append(response_queue,
                    [response |-> Ack,
                     client_address |-> Head(order_queue).client_address])
             /\ Ack.order_id = Head(order_queue).order.order_id
             /\ processor' = process_order(processor, Head(order_queue).symbol,
                                           Head(order_queue).order).processor
    /\ processor' # processor => Len(response_queue') = Len(response_queue) + 1
    /\ Cardinality(Enqueued')
          = Len(order_queue') + Cardinality(Acks(response_queue'))
               + Cardinality(Acks(sent'))

C23_AppliedInQueueOrder == [][C23_Step]_vars

\* Three orders have been enqueued; the first two have been applied while
\* the third waits.
C23_Witness ==
    /\ Cardinality(Enqueued) = 3
    /\ Len(order_queue) = 1
    /\ order_queue[1].order.h = 3
    /\ Cardinality(Acks(response_queue)) = 2

\* C24: the request queue is bounded; when it is at capacity a newly
\* received request is not enqueued (so never applied), its sender is sent a
\* negative acknowledgement with message "overload", and the listener does
\* not block (it takes the step).
C24_Step ==
    /\ QueueMaxsize > 0
    /\ Len(order_queue') <= QueueMaxsize
    /\ ( /\ ReceiveStep
         /\ ~ Malformed(Received.data)
         /\ Len(order_queue) >= QueueMaxsize )
       => /\ order_queue' = order_queue
          /\ Len(sent') = Len(sent) + 1
          /\ sent'[Len(sent')].response.success = FALSE
          /\ sent'[Len(sent')].response.message = "overload"
          /\ sent'[Len(sent')].client_address = Received.client_address

C24_BoundedQueueOverload == [][C24_Step]_vars

\* The datagrams received from an address, and the responses the socket
\* accepted for it.
ReceivedFrom(a) ==
    Cardinality({ k \in 1..Len(recv_log) : recv_log[k].client_address = a })

DeliveredTo(a) ==
    Cardinality({ k \in 1..Len(sent) :
                    sent[k].client_address = a /\ sent[k].exc = "none" })

\* C25: while the server runs, every datagram received eventually results
\* in exactly one response sent to the address it came from (the parse-error
\* response or the acknowledgement, never both and never none): an address
\* is never sent more responses than it sent datagrams, and its n-th
\* datagram leads to its n-th response.
C25_EveryDatagramAnsweredOnce ==
    /\ [](\A a \in Addrs : DeliveredTo(a) <= ReceivedFrom(a))
    /\ \A a \in Addrs : \A n \in 1..MaxDatagrams :
          (ReceivedFrom(a) >= n) ~> (DeliveredTo(a) >= n \/ ~ running)

\* C26: on stop() every request already on the request queue is still
\* applied and its acknowledgement sent before the workers exit: once the
\* processing worker has left its loop no request is left on order_queue,
\* and once the response worker has left its loop no request and no
\* acknowledgement is left on either queue.
C26_ShutdownDrains ==
    /\ "processing" \notin alive => order_queue = << >>
    /\ "response" \notin alive =>
          order_queue = << >> /\ response_queue = << >>

\* A submitter inside add_order on the book of a symbol: it holds the book
\* and has not yet finished the call's last statement.
InAddOrder(t, sym) ==
    /\ inflight[t].stage \in {"matching", "statistics"}
    /\ inflight[t].symbol = sym

\* C27: books are mutated by one task: at no time are two threads (the UDP
\* processing worker and the handler of POST /api/orders) inside
\* process_order / add_order on the same book.
C27_OneMatcherPerBook ==
    \A sym \in Symbols : \A t1 \in Submitters, t2 \in Submitters :
        (InAddOrder(t1, sym) /\ InAddOrder(t2, sym)) => t1 = t2

\* The submitters that have matched on the book of a symbol and not yet
\* updated its statistics, and the snapshots of that book as it is between
\* two requests: as it is now when no call is under way, else as it was
\* before the call and as it will be once the call's statistics are in.
MidCall(sym) ==
    { t \in Submitters :
        inflight[t].stage = "statistics" /\ inflight[t].symbol = sym }

Published(sym) ==
    IF MidCall(sym) = {}
    THEN { get_order_book_snapshot(processor.order_books[sym], DefaultDepth) }
    ELSE UNION { { get_order_book_snapshot(inflight[t].before, DefaultDepth),
                   get_order_book_snapshot(
                       UpdateStatistics(processor.order_books[sym],
                                        inflight[t].trades),
                       DefaultDepth) } : t \in MidCall(sym) }

\* C28: what a reader thread reads while the matcher runs is, for every
\* book, the snapshot of the book as it was between two requests, never one
\* of a state inside add_order (a resting order already removed while
\* total_volume and total_trades lack the execution).
C28_Step ==
    observed' # observed
    => \A sym \in DOMAIN observed' : observed'[sym] \in Published(sym)

C28_ReadsSeeWholeRequests == [][C28_Step]_vars

\* The submitter that takes the step: the one whose locals change.
Stepping(t) == inflight'[t] # inflight[t]

\* C29: the registry creates the book of a symbol only when the first
\* request naming it is processed, and every later request for the symbol,
\* from either thread, is applied to that book: no symbol ever leaves the
\* registry; a book is created, empty, only in the get_or_create step of a
\* request that names a symbol the registry does not hold (so once per
\* symbol, also when both threads hold a request for the new symbol); and an
\* existing book changes only by add_order of a request naming its symbol,
\* never by being replaced.
C29_Step ==
    /\ DOMAIN processor.order_books \subseteq DOMAIN processor'.order_books
    /\ \A sym \in DOMAIN processor'.order_books \ DOMAIN processor.order_books :
          /\ processor'.order_books[sym] = EmptyBook
          /\ \E t \in Submitters :
                /\ Stepping(t)
                /\ inflight[t].stage = "entered"
                /\ inflight[t].symbol = sym
    /\ \A sym \in DOMAIN processor.order_books :
          processor'.order_books[sym] # processor.order_books[sym]
          => \E t \in Submitters : Stepping(t) /\ InAddOrder(t, sym)

C29_OneBookPerSymbol == [][C29_Step]_vars

\* Both threads have taken a first request for the same new symbol and got
\* its book; one of them has already rested its order on it.
C29_Witness ==
    /\ processor.total_orders_processed = 0
    /\ DOMAIN processor.order_books = {"B"}
    /\ inflight["processing"].stage = "matching"
    /\ inflight["processing"].symbol = "B"
    /\ inflight["http"].stage = "returning"
    /\ inflight["http"].symbol = "B"
    /\ RestingIds(processor.order_books["B"]) # {}

\* The book of a symbol in a registry (as created when it has none), and
\* the quantity resting on a side.
BookOf(order_books, sym) ==
    IF sym \in DOMAIN order_books THEN order_books[sym] ELSE EmptyBook

RECURSIVE RestingQty(_)
RestingQty(heap) ==
    IF heap = << >> THEN 0
    ELSE heap[1].order.quantity + RestingQty(Tail(heap))

\* C30: the acknowledgement enqueued for an applied order carries its
\* order_id, the accepted flag (true exactly when the order was applied
\* without error), and exactly the executions applying it produced, in
\* their order: the entries its book's history gained, each naming this
\* order on its own side; and for a MARKET order the quantities listed sum
\* to the filled portion, the quantity the order took from the opposite
\* side.
C30_Step ==
    ( ProcessStep /\ Len(response_queue') = Len(response_queue) + 1 )
    => LET o == Applied.order
           before == BookOf(processor.order_books, Applied.symbol)
           after == processor'.order_books[Applied.symbol]
           produced == SubSeq(after.trades, Len(before.trades) + 1,
                              Len(after.trades))
       IN /\ Ack.order_id = o.order_id
          /\ Ack.success = (processor'.total_orders_processed
                               = processor.total_orders_processed + 1)
          /\ Len(Ack.trades) = Len(produced)
          /\ \A k \in 1..Len(produced) :
                Ack.trades[k] = [quantity |-> produced[k].quantity,
                                 price |-> produced[k].price]
          /\ Naming(produced, o) = 1..Len(produced)
          /\ o.order_type = "MARKET"
                => SumQty(Ack.trades)
                     = RestingQty(OppSide(before, o))
                          - RestingQty(OppSide(after, o))

C30_AckListsExecutions == [][C30_Step]_vars

\* The Order objects the index of a book holds: each was passed to add_order
\* in an earlier call.
Indexed(b) == { b.orders_by_id[id] : id \in DOMAIN b.orders_by_id }

\* C31: submit_time comes from a monotonic admission counter, not from the
\* wall clock: of two orders applied to the same book, the one applied
\* earlier has a submit_time no greater than the one applied later.  When a
\* thread applies an order (the add_order step), no Order already stored on
\* that book carries a later timestamp.
C31_Step ==
    \A t \in Submitters :
        ( Stepping(t) /\ inflight[t].stage = "matching"
          /\ inflight[t].order.order_type # "CANCEL" )
        => \A earlier \in Indexed(processor.order_books[inflight[t].symbol]) :
              earlier.timestamp <= inflight[t].order.timestamp

C31_SubmitTimeFollowsAdmission == [][C31_Step]_vars

\* Two positions of one side hold entries with the same price and the same
\* timestamp.
TiedKeys(heap) ==
    \E i \in 1..Len(heap), j \in 1..Len(heap) :
        i # j /\ heap[i].key = heap[j].key /\ heap[i].ts = heap[j].ts

\* C32: within each side the priority key (price, submit_time) is a strict
\* total order over the resting orders: between requests no two orders
\* resting on the same side have both the same price and the same
\* submit_time.
C32_PriorityKeyStrict ==
    ~ TiedKeys(book.buy_orders) /\ ~ TiedKeys(book.sell_orders)

\* A book with the client_id of every Order it holds blanked and without the
\* per-client tracking: what is left to compare between two runs that
\* differ in client_id only.
BlindOrder(o) == [o EXCEPT !.client_id = ""]

BlindSide(heap) ==
    [i \in 1..Len(heap) |-> [heap[i] EXCEPT !.order = BlindOrder(@)]]

Blind(b) ==
    [buy_orders |-> BlindSide(b.buy_orders),
     sell_orders |-> BlindSide(b.sell_orders),
     orders_by_id |-> [id \in DOMAIN b.orders_by_id |->
                          BlindOrder(b.orders_by_id[id])],
     trades |-> b.trades,
     total_volume |-> b.total_volume,
     total_trades |-> b.total_trades]

\* C33: matching does not depend on client_id: two runs of the same request
\* sequence that differ only in the client_id values produce the same
\* executions, the same resting orders and the same totals, request by
\* request: the executions add_order returns, and the two sides, the index,
\* the trade history and the totals it leaves (client_id aside).
C33_ClientBlind ==
    log # << >>
    => /\ twin.trades = Last.trades
       /\ Blind(twin.book) = Blind(book)

\* The entries of the opposite side that order o may execute against: all
\* of them for a MARKET order; for a LIMIT order those priced at or better
\* than its limit (asks <= P for a BUY, bids >= P for a SELL).
Eligible(b, o) ==
    SelectSeq(OppSide(b, o),
              LAMBDA e : \/ o.order_type = "MARKET"
                         \/ o.side = "BUY" /\ e.order.price <= o.price
                         \/ o.side = "SELL" /\ e.order.price >= o.price)

Min(a, b) == IF a <= b THEN a ELSE b

\* C34: the total quantity filled by one incoming order of quantity q > 0
\* is min(q, L), L being the quantity resting on the opposite side (MARKET)
\* or resting there at prices at or better than the limit (LIMIT); each
\* execution has quantity min(aggressor remaining, resting order remaining)
\* and a positive quantity.
C34_Step ==
    ( Len(log') = Len(log) + 1
      /\ log'[Len(log')].order.order_type \in {"MARKET", "LIMIT"}
      /\ log'[Len(log')].order.quantity > 0 )
    => LET o == log'[Len(log')].order
           ts == log'[Len(log')].trades
           L == RestingQty(Eligible(book, o))
       IN /\ SumQty(ts) = Min(o.quantity, L)
          /\ RestingQty(OppSide(book, o)) - RestingQty(OppSide(book', o))
                = Min(o.quantity, L)
          /\ \A k \in 1..Len(ts) :
                /\ ts[k].quantity > 0
                /\ \E e \in Resting(book) :
                      /\ e.order.order_id = PassiveId(o, ts[k])
                      /\ e.order.side # o.side
                      /\ ts[k].quantity =
                           Min(o.quantity - SumQty(SubSeq(ts, 1, k - 1)),
                               e.order.quantity)

C34_FillIsMinOfQuantityAndLiquidity == [][C34_Step]_vars

\* C35: after a LIMIT BUY at price P has been applied and rests, every ask
\* left on the book is priced strictly above P; after a LIMIT SELL at P
\* rests, every bid left is priced strictly below P.  A LIMIT order never
\* rests while an opposite order at an acceptable price is on the book.
C35_Step ==
    ( Len(log') = Len(log) + 1 /\ log'[Len(log')].order.order_type = "LIMIT" )
    => LET o == log'[Len(log')].order
       IN EntriesOf(book', o) # {} => Eligible(book', o) = << >>

C35_LimitRestsOnlyUncrossed == [][C35_Step]_vars

\* C36: after stop() has set running to false and closed the socket, the
\* network loop, the processing worker and the response worker each
\* eventually leave their loop, whatever they were doing at that moment
\* (blocked on receive, blocked on an empty queue, or in the middle of an
\* item); a thread that has left does not come back.
C36_ThreadsTerminateAfterStop ==
    /\ \A t \in ServerThreads : (~ running) ~> (t \notin alive)
    /\ [][alive' \subseteq alive]_vars

\* All three threads have left after stop(), the worker having finished the
\* item it held; a request is still on order_queue and an acknowledgement
\* on response_queue.
C36_Witness ==
    /\ ~ running
    /\ alive = {}
    /\ order_queue # << >>
    /\ response_queue # << >>
    /\ inflight["processing"] = Idle

\* C37: applying a request that names symbol A leaves the book of every
\* other symbol unchanged (sides, index, history, totals) and never matches
\* against an order resting on another symbol's book: what the request makes
\* of A's book is what add_order makes of that book alone; the only change
\* to the registry's keys is the book of the request's own symbol.
C37_Step ==
    ProcessStep
    => LET sym == Applied.symbol
           before == processor.order_books
           after == processor'.order_books
       IN /\ DOMAIN after = DOMAIN before \cup {sym}
          /\ \A other \in DOMAIN before \ {sym} : after[other] = before[other]
          /\ after[sym] = add_order(BookOf(before, sym), Applied.order).book

C37_OtherBooksUntouched == [][C37_Step]_vars

\* Two symbols have books whose orders would cross if they shared a book:
\* an ask resting on A at a price a bid resting on B meets.
C37_Witness ==
    /\ {"A", "B"} \subseteq DOMAIN processor.order_books
    /\ \E a \in Sells(processor.order_books["A"]),
          b \in Buys(processor.order_books["B"]) :
          a.order.price <= b.order.price

\* A side is a valid priority structure: no entry is ahead of its parent in
\* the array, so the head is the best price and, at that price, the earliest
\* time.
IsHeap(heap) ==
    \A i \in 2..Len(heap) : ~ TupleLT(heap[i], heap[i \div 2])

\* The entries of a side as a set (an entry holds its Order object, so no
\* two positions hold equal entries).
EntrySet(heap) == { heap[i] : i \in 1..Len(heap) }

\* C38: a CANCEL of a resting order changes nothing except removing that
\* one order: every other resting order keeps its side, price and quantity,
\* each side is still a valid priority structure, and the trade history,
\* total_volume and total_trades are unchanged; a CANCEL of an id that is
\* not resting changes neither side.
C38_Step ==
    ( Len(log') = Len(log) + 1 /\ log'[Len(log')].order.order_type = "CANCEL" )
    => LET id == log'[Len(log')].order.order_id
           gone == (EntrySet(book.buy_orders) \ EntrySet(book'.buy_orders))
                     \cup (EntrySet(book.sell_orders) \ EntrySet(book'.sell_orders))
       IN /\ book'.trades = book.trades
          /\ book'.total_volume = book.total_volume
          /\ book'.total_trades = book.total_trades
          /\ EntrySet(book'.buy_orders) \subseteq EntrySet(book.buy_orders)
          /\ EntrySet(book'.sell_orders) \subseteq EntrySet(book.sell_orders)
          /\ Len(book'.buy_orders) + Len(book'.sell_orders) + Cardinality(gone)
                = Len(book.buy_orders) + Len(book.sell_orders)
          /\ IF id \in RestingIds(book)
             THEN /\ Cardinality(gone) = 1
                  /\ \A e \in gone : e.order.order_id = id
                  /\ IsHeap(book.buy_orders) => IsHeap(book'.buy_orders)
                  /\ IsHeap(book.sell_orders) => IsHeap(book'.sell_orders)
             ELSE /\ book'.buy_orders = book.buy_orders
                  /\ book'.sell_orders = book.sell_orders

C38_CancelTouchesOneOrder == [][C38_Step]_vars

\* C39: when process_order reports failure for a request (success = false
\* because add_order raised), the book is exactly as it was before the
\* request: no resting order has been removed or reduced, and the failed
\* order's id has not been added to the id index or to the client's order
\* tracking.
C39_Step ==
    ( ProcessStep /\ Len(response_queue') = Len(response_queue) + 1
      /\ ~ Ack.success )
    => processor'.order_books[Applied.symbol]
          = BookOf(processor.order_books, Applied.symbol)

C39_FailureLeavesBookUnchanged == [][C39_Step]_vars

\* C40: total_orders_processed counts the process_order calls whose add_order
\* returned without raising, also when the processing worker and the POST
\* handler call process_order at the same time: the call of a submitter that
\* has come back from add_order leaves the counter one above the value it
\* had just before the call counted itself, and no step lowers the counter.
C40_Step ==
    /\ processor'.total_orders_processed >= processor.total_orders_processed
    /\ \A t \in Submitters :
          ( inflight[t].stage = "counting" /\ inflight'[t] = Idle )
          => processor'.total_orders_processed
                = processor.total_orders_processed + 1

C40_NoIncrementLost == [][C40_Step]_vars
====
